---- MODULE Spec2Model ----
(***************************************************************************)
(* The one-sided active-message queue of                                   *)
(* dart-impl/mpi/src/dart_amsgq/dart_active_messages_sopnop.c, seen from   *)
(* the receive region of one target unit.                                  *)
(*                                                                         *)
(* Remote units run dart_amsg_sopnop_trysend, dart_amsg_sopnop_bsend and    *)
(* dart_amsg_sopnop_flush_buffer against the target's window; the target's *)
(* threads run dart_amsg_sopnop_process and                                *)
(* dart_amsg_sopnop_process_blocking.  Every MPI call that touches the     *)
(* window (together with the flush that completes it) is one step.         *)
(*                                                                         *)
(* Sizes are counted in units of sizeof(struct dart_amsg_header): a        *)
(* message of payload d occupies HeaderSize + d cells of a sub-queue.      *)
(***************************************************************************)
EXTENDS Integers, Sequences, FiniteSets, TLC

(* ------------------------------------------------------------------ *)
(* Bounds of the model                                                  *)
(* ------------------------------------------------------------------ *)

\* try_send calls a remote unit makes before it joins process_blocking
MaxSends == 1

\* try_send calls of a unit that sends a stream of messages
StreamSends == 3 * MaxSends

\* openq(msg_size, msg_count, ...): largest payload and number of slots
msg_size == 1
msg_count == 1

\* the fetch-and-adds of one call are counted up to this number (bsend and
\* flush_buffer retry without limit)
MaxAttempts == 2

\* #define MSGCACHE_SIZE (4*1024), scaled to cells: the capacity of the cache
\* a unit keeps per target
MSGCACHE_SIZE == 2

\* the threads of the remote units of the team; a thread is named like the
\* unit whose main thread it is
Senders == {"s1", "s2", "s3"}

\* the threads of the target unit: main runs process_blocking, aux polls
\* with the non-blocking process
Threads == {"main", "aux"}

(* ------------------------------------------------------------------ *)
(* 64-bit window values                                                 *)
(*                                                                      *)
(* tailpos values are int64_t and carry the freeze bias INT32_MAX.      *)
(* A value v is kept as hi * INT32_MAX + lo with a small lo, which is   *)
(* exact while |lo| < INT32_MAX (always, with the bounds above).        *)
(* ------------------------------------------------------------------ *)

I64(h, l) == [hi |-> h, lo |-> l]

Zero64 == I64(0, 0)

Plus64(a, b) == I64(a.hi + b.hi, a.lo + b.lo)

Minus64(a) == I64(0 - a.hi, 0 - a.lo)

\* v < 0
IsNeg64(v) == v.hi < 0 \/ (v.hi = 0 /\ v.lo < 0)

\* v > 0
IsPos64(v) == v.hi > 0 \/ (v.hi = 0 /\ v.lo > 0)

\* a <= b
Leq64(a, b) == ~IsPos64(Plus64(a, Minus64(b)))

\* the constant INT32_MAX as a 64-bit value
INT32_MAX == I64(1, 0)

(* ------------------------------------------------------------------ *)
(* Layout                                                               *)
(* ------------------------------------------------------------------ *)

HeaderSize == 1

\* res->queue_size = msg_count * (sizeof(struct dart_amsg_header) + msg_size)
queue_size == msg_count * (HeaderSize + msg_size)

Queues == {0, 1}

\* a cell of a data region: the zeroed window, a header, or a payload cell
ZeroCell == [src |-> "none", seq |-> 0, idx |-> 0, data_size |-> 0]

HeaderCell(s, n, d) == [src |-> s, seq |-> n, idx |-> 0, data_size |-> d]

PayloadCell(s, n, i) == [src |-> s, seq |-> n, idx |-> i, data_size |-> 0]

\* the bytes trysend assembles: header followed by data_size payload cells
Message(s, n, d) ==
  [i \in 1..(HeaderSize + d) |->
     IF i = 1 THEN HeaderCell(s, n, d) ELSE PayloadCell(s, n, i - 1)]

IsHeader(c) == c.src # "none" /\ c.idx = 0

(* ------------------------------------------------------------------ *)
(* State                                                                *)
(* ------------------------------------------------------------------ *)

VARIABLES
  selector,          \* window offset OFFSET_QUEUENUM
  tail,              \* window offsets OFFSET_TAILPOS(q), 64-bit values
  ready,             \* window offsets OFFSET_READYPOS(q)
  data,              \* window offsets OFFSET_DATA(q, queue_size), cells 0..queue_size-1
  prev_tailpos,      \* amsgq->prev_tailpos
  processing_mutex,  \* amsgq->processing_mutex: "free" or the thread holding it
  enable_assertions, \* whether the build compiles DART_ASSERT in: "on", "off",
                     \* or "either" while no assertion has failed yet
  snd,               \* per remote unit: where it is in trysend/sendbuf
  thr,               \* per target thread: where it is in process/process_blocking
  sentOK,            \* history: messages whose trysend returned DART_OK
  dispatched,        \* history: handler invocations at the target, in order
  reserved,          \* history: the reservations that succeeded
  landed,            \* history: per sub-queue, the cells written in its current
                     \* cycle by puts that completed before the drainer left
                     \* its wait loop
  frozen,            \* history: the sub-queues between the freeze of their tail
                     \* and its replacement by zero
  granted,           \* history: per sub-queue, the sizes of the reservations
                     \* that succeeded since its tail was last replaced by
                     \* zero, summed
  tiles,             \* history: per sub-queue, the byte ranges of those
                     \* reservations
  amsgq,             \* per remote unit, its struct dart_amsgq_impl_data:
                     \* send_mutex, processing_mutex, message_cache and the
                     \* cache of the slot message_cache[target]
  bsent,             \* history: per remote unit, the messages bsend accepted
                     \* (returned DART_OK for), in order
  binjected          \* history: per remote unit, the cached messages a
                     \* sendbuf that returned DART_OK has put, in order

vars == <<selector, tail, ready, data, prev_tailpos, processing_mutex,
          enable_assertions, snd, thr, sentOK, dispatched, reserved, landed,
          frozen, granted, tiles, amsgq, bsent, binjected>>

history == <<sentOK, dispatched, reserved, landed, frozen, granted, tiles,
            bsent, binjected>>

window == <<selector, tail, ready, data>>

Cells == 0..(queue_size - 1)

\* the buffer of a cache; bytes no message was written to are shown as zero
\* cells
EmptyBuffer == [i \in 1..MSGCACHE_SIZE |-> ZeroCell]

\* message_cache[target] == NULL: no cache block
NoCache ==
  [block |-> "none", pos |-> 0, mutex |-> "uninit", buffer |-> EmptyBuffer]

\* the struct dart_amsgq_impl_data openq leaves at a remote unit: free
\* mutexes, the slot table calloc'ed at line 119, no cache for the target.
\* (The model follows the slot of the one target; the units send nowhere
\* else, so the other slots stay NULL.)
AmsgqInit ==
  [send_mutex |-> "free", processing_mutex |-> "free",
   message_cache |-> "allocated", cache |-> NoCache,
   \* the messages peers are still to send to the unit, and the messages
   \* they have left in the active sub-queue of its own window
   incoming |-> 0, own_tail |-> 0]

SndInit(sends, payload, free, unit, buffered) ==
  [pc |-> IF sends > 0 THEN "idle" ELSE "barrier", queuenum |-> 0,
   offset |-> Zero64, msg_size |-> 0, calls |-> 0, left |-> sends,
   max_data |-> payload, free |-> free, ret |-> "none",
   \* the unit the thread belongs to, whether it sends with bsend and flush
   \* or with trysend, the call it is in (or was last in), the data_size
   \* bsend was called with, the bytes sendbuf was handed
   unit |-> unit, buffered |-> buffered, op |-> "none", arg |-> 0,
   out |-> <<>>,
   \* in process_internal on the queue of its own unit: who called it
   \* ("retry" after DART_ERR_AGAIN, "pb" for process_blocking), the
   \* messages its walk has still to dispatch, and, inside a handler that
   \* calls bsend, the call the handler interrupted
   drain |-> "none", walk |-> 0, ctx |-> "none",
   \* history of the call under way (of the last call, once it has returned):
   \* its fetch-and-adds, what they have left in each tail, the cells its put
   \* wrote, its bumps of readypos, whether it was a flush that found nothing
   \* to send
   attempts |-> 0, net |-> [q \in Queues |-> 0], wrote |-> {}, bumps |-> 0,
   empty |-> FALSE, on_frozen |-> FALSE, stale |-> FALSE]

ThrInit(t, active) ==
  [pc |-> IF ~active THEN "off" ELSE IF t = "main" THEN "pb_start" ELSE "idle",
   phase |-> "none", ret |-> "none",
   queuenum |-> 0, tailpos |-> Zero64,
   tailpos_sub |-> Zero64, readypos |-> 0, pos |-> 0,
   \* history: the length of dispatched when the walk under way began
   first |-> 0]

\* the state openq leaves: a zeroed window, free mutexes, prev_tailpos 0, no
\* cache.  Thread s belongs to unit unit[s]; it sends with bsend and flush if
\* it is in B and with try_send otherwise, payloads of 0..payload[s] cells.
\* A thread of F is the main thread of its unit and calls process_blocking
\* after any number of calls up to sends[s] (and after the other threads of
\* its unit have made theirs); the others make exactly sends[s] calls.  The
\* threads of T run at the target; the others never call the queue.
InitQueues(sends, payload, F, T, unit, B, own) ==
  /\ selector = 0
  /\ tail = [q \in Queues |-> Zero64]
  /\ ready = [q \in Queues |-> 0]
  /\ data = [q \in Queues |-> [c \in Cells |-> ZeroCell]]
  /\ prev_tailpos = Zero64
  /\ processing_mutex = "free"
  /\ enable_assertions = "either"
  /\ snd = [s \in Senders |->
              SndInit(sends[s], payload[s], s \in F, unit[s], s \in B)]
  /\ thr = [t \in Threads |-> ThrInit(t, t \in T)]
  /\ sentOK = {}
  /\ dispatched = <<>>
  /\ reserved = {}
  /\ landed = [q \in Queues |-> {}]
  /\ frozen = {}
  /\ granted = [q \in Queues |-> 0]
  /\ tiles = [q \in Queues |-> {}]
  /\ amsgq = [u \in Senders |-> [AmsgqInit EXCEPT !.incoming = own[u]]]
  /\ bsent = [u \in Senders |-> <<>>]
  /\ binjected = [u \in Senders |-> <<>>]

\* units to which no peer sends
InitUnits(sends, payload, F, T, unit, B) ==
  InitQueues(sends, payload, F, T, unit, B, [u \in Senders |-> 0])

\* single-threaded units that send with try_send
InitWith(sends, payload, F, T) ==
  InitUnits(sends, payload, F, T, [s \in Senders |-> s], {})

\* DART_ASSERT(cond): the pairs <<execution goes on, build>> it can yield.  A
\* failed assertion ends the unit in a build that compiles assertions in and
\* does nothing in one that compiles them out; which build runs is settled by
\* the first assertion that fails.
DART_ASSERT(cond) ==
  IF cond THEN {<<TRUE, enable_assertions>>}
  ELSE (IF enable_assertions # "off" THEN {<<FALSE, "on">>} ELSE {})
       \cup (IF enable_assertions # "on" THEN {<<TRUE, "off">>} ELSE {})

(* ------------------------------------------------------------------ *)
(* Sender path: dart_amsg_sopnop_trysend -> dart_amsg_sopnop_sendbuf    *)
(* ------------------------------------------------------------------ *)

\* the check of line 173 without its upper bound
ReservationOk_NoUpperBound(offset, n) == ~IsNeg64(offset)

\* line 173: the reservation succeeded
ReservationOk(offset, n) ==
  /\ ~IsNeg64(offset)
  /\ Leq64(Plus64(offset, I64(0, n)), I64(0, queue_size))

\* line 176: the amount the failed sender adds back
neg_msg_size(n) == 0 - n

\* lines 168 and 180: the counter a sender of queue number q works on
TailposOf(q) == q

\* lines 193-202: the cells of sub-queue q a put of n cells at offset writes,
\* counted from the start of data[q]
PutRange(offset, n) == offset.lo .. (offset.lo + n - 1)

\* OFFSET_DATA(q, qs) counted in cells from the start of data[0]
OFFSET_DATA(q) == q * queue_size

\* a call of trysend, bsend or flush_buffer begins: the history of the call
\* starts afresh
Started(r, op) ==
  [r EXCEPT !.op = op, !.ret = "none", !.attempts = 0,
            !.net = [q \in Queues |-> 0], !.wrote = {}, !.bumps = 0,
            !.empty = FALSE]

\* lines 143-160: sendbuf is entered with n bytes and fetches the queue
\* number; a is the outcome of the assertion of line 160
Fetched(r, n, a) ==
  [r EXCEPT !.pc = IF a[1] THEN "reserve" ELSE "aborted",
            !.queuenum = selector, !.msg_size = n, !.offset = Zero64]

\* the call has returned: the locals of sendbuf are dead and hold their
\* initial values.  A unit that has made its last call goes on to
\* process_blocking.
Returned(r) ==
  [r EXCEPT !.pc = IF r.left = 1 /\ ~r.free THEN "barrier" ELSE "idle",
            !.queuenum = 0, !.offset = Zero64, !.msg_size = 0,
            !.calls = @ + 1, !.left = @ - 1, !.on_frozen = FALSE,
            !.stale = FALSE, !.arg = 0, !.out = <<>>]

\* the call thread s is in has returned: flush_buffer called from
\* process_blocking is followed by the barrier
Finished(r) ==
  IF r.ctx # "none"
  THEN \* a bsend called by a handler returns into the dispatch walk
       [r EXCEPT !.pc = "own_dispatch", !.op = r.ctx, !.ctx = "none",
                 !.queuenum = 0, !.offset = Zero64, !.msg_size = 0,
                 !.on_frozen = FALSE, !.stale = FALSE, !.arg = 0,
                 !.out = <<>>]
  ELSE IF r.op = "pb"
  THEN [Returned(r) EXCEPT !.pc = "barrier", !.calls = r.calls, !.left = r.left]
  ELSE Returned(r)

\* the drainer has left its wait loop on sub-queue q and not yet returned
PastWait(q) ==
  \E t \in Threads :
    thr[t].pc \in {"resetready", "dispatch"} /\ thr[t].queuenum = q

\* the messages whose headers lie in the bytes buf, in order
MessagesIn(buf) ==
  LET heads == SelectSeq(buf, IsHeader)
  IN [i \in 1..Len(heads) |->
        [src |-> heads[i].src, seq |-> heads[i].seq,
         data_size |-> heads[i].data_size]]

\* trysend assembles the message, sendbuf fetches the queue number
TrySend(s, d) ==
  /\ snd[s].pc = "idle"
  /\ ~snd[s].buffered
  /\ snd[s].left > 0
  /\ d <= snd[s].max_data
  /\ \E a \in DART_ASSERT(selector \in Queues) :
       /\ enable_assertions' = a[2]
       /\ snd' = [snd EXCEPT ![s] =
            Fetched(Started(@, "trysend"), HeaderSize + d, a)]
  /\ UNCHANGED <<amsgq, window, prev_tailpos, processing_mutex, thr, history>>

\* lines 162-173: fetch-and-add of msg_size on the tail of the fetched queue
Reserve(s) ==
  /\ snd[s].pc = "reserve"
  /\ LET q == TailposOf(snd[s].queuenum)
         n == snd[s].msg_size
         offset == tail[q]
         ok == ReservationOk(offset, n)
     IN /\ tail' = [tail EXCEPT ![q] = Plus64(@, I64(0, n))]
        /\ snd' = [snd EXCEPT ![s] =
             [@ EXCEPT !.offset = offset,
                       !.pc = IF ok THEN "put" ELSE "rollback",
                       !.attempts = IF @ < MaxAttempts THEN @ + 1 ELSE @,
                       !.net = [@ EXCEPT ![q] = @ + n],
                       !.on_frozen = q \in frozen]]
        /\ reserved' =
             IF ok THEN reserved \cup
                        {[src |-> s, seq |-> snd[s].calls + 1,
                          queue |-> snd[s].queuenum, offset |-> offset.lo]}
             ELSE reserved
        /\ granted' = IF ok THEN [granted EXCEPT ![q] = @ + n] ELSE granted
        /\ tiles' = IF ok THEN [tiles EXCEPT ![q] =
                                 @ \cup {[offset |-> offset.lo, size |-> n]}]
                     ELSE tiles
  /\ UNCHANGED <<amsgq, bsent, binjected,
                 selector, ready, data, prev_tailpos, processing_mutex,
                 enable_assertions, thr, sentOK, dispatched, landed, frozen>>

\* lines 175-185: revert the reservation and return DART_ERR_AGAIN, to the
\* caller of trysend or to the retry loop of bsend and flush_buffer
Rollback(s) ==
  /\ snd[s].pc = "rollback"
  /\ LET q == TailposOf(snd[s].queuenum)
         n == snd[s].msg_size
         undone == [snd[s] EXCEPT !.net = [@ EXCEPT ![q] = @ + neg_msg_size(n)]]
     IN /\ tail' = [tail EXCEPT ![q] = Plus64(@, I64(0, neg_msg_size(n)))]
        /\ snd' = [snd EXCEPT ![s] =
             IF snd[s].op = "trysend"
             THEN [Returned(undone) EXCEPT !.ret = "AGAIN"]
             ELSE [undone EXCEPT !.pc = "process", !.queuenum = 0,
                                 !.offset = Zero64, !.msg_size = 0,
                                 !.on_frozen = FALSE, !.stale = FALSE]]
  /\ UNCHANGED <<amsgq, selector, ready, data, prev_tailpos, processing_mutex,
                 enable_assertions, thr, history>>

\* the bytes sendbuf was handed: the message trysend assembled on its stack,
\* or the first msg_size bytes of the cache as they are when the put reads
\* them
Outgoing(s) ==
  IF snd[s].op = "trysend"
  THEN Message(s, snd[s].calls + 1, snd[s].msg_size - HeaderSize)
  ELSE [i \in 1..snd[s].msg_size |-> amsgq[snd[s].unit].cache.buffer[i]]

\* lines 191-204: MPI_Put of the message at OFFSET_DATA(queuenum) + offset and
\* the flush that lands it
Put(s) ==
  /\ snd[s].pc = "put"
  /\ LET q == snd[s].queuenum
         n == snd[s].msg_size
         m == Outgoing(s)
         range == PutRange(snd[s].offset, n)
         \* the cell of the put that lands on cell c of sub-queue k, if any
         Src(k, c) == OFFSET_DATA(k) + c - OFFSET_DATA(q)
     IN /\ data' = [k \in Queues |-> [c \in Cells |->
             IF Src(k, c) \in range
             THEN m[Src(k, c) - snd[s].offset.lo + 1] ELSE data[k][c]]]
        /\ snd' = [snd EXCEPT ![s] =
             [@ EXCEPT !.pc = "signal", !.wrote = range,
                       !.out = IF snd[s].op = "trysend" THEN <<>> ELSE m]]
        /\ landed' = [k \in Queues |->
             LET hit == {c \in Cells : Src(k, c) \in range}
             IN IF k = q /\ ~snd[s].stale /\ ~PastWait(k)
                THEN landed[k] \cup hit ELSE landed[k] \ hit]
  /\ UNCHANGED <<amsgq, bsent, binjected,
                 selector, tail, ready, prev_tailpos, processing_mutex,
                 enable_assertions, thr, sentOK, dispatched, reserved, frozen,
                 granted, tiles>>

\* lines 557-565: bsend writes a message of payload d at buffer + pos and
\* advances pos
Appended(c, u, n, d) ==
  [c EXCEPT !.buffer = [i \in 1..MSGCACHE_SIZE |->
                          IF i \in (c.pos + 1)..(c.pos + HeaderSize + d)
                          THEN Message(u, n, d)[i - c.pos] ELSE c.buffer[i]],
            !.pos = c.pos + HeaderSize + d]

\* lines 489 and 555: cache->pos = 0.  (The bytes of the buffer are dead from
\* here on and are shown as zero cells.)
Emptied(c) == [c EXCEPT !.pos = 0, !.buffer = EmptyBuffer]

\* what sendbuf's DART_OK means to its caller.  trysend returns it.  bsend
\* (lines 553-569) resets pos, appends its own message, unlocks the cache and
\* returns DART_OK.  flush_buffer (lines 487-496) resets pos, unlocks the cache
\* and send_mutex and returns DART_OK; called from process_blocking, the unit
\* goes on to the barrier.
SentAmsgq(s, a) ==
  LET u == snd[s].unit
      d == snd[s].arg
      c == Emptied(a.cache)
  IN IF snd[s].op = "trysend" THEN a
     ELSE IF snd[s].op = "bsend"
     THEN [a EXCEPT !.cache =
             [Appended(c, u, Len(bsent[u]) + 1, d) EXCEPT !.mutex = "free"]]
     ELSE [a EXCEPT !.cache = [c EXCEPT !.mutex = "free"],
                    !.send_mutex = "free"]

\* lines 209-222: bump readypos, flush, return DART_OK
Signal(s) ==
  /\ snd[s].pc = "signal"
  /\ LET u == snd[s].unit
         sent == IF snd[s].op = "trysend"
                 THEN <<[src |-> s, seq |-> snd[s].calls + 1,
                         data_size |-> snd[s].msg_size - HeaderSize]>>
                 ELSE MessagesIn(snd[s].out)
     IN /\ ready' = [ready EXCEPT ![snd[s].queuenum] = @ + snd[s].msg_size]
        /\ sentOK' = sentOK \cup {sent[i] : i \in 1..Len(sent)}
        /\ amsgq' = [amsgq EXCEPT ![u] = SentAmsgq(s, @)]
        /\ binjected' = IF snd[s].op = "trysend" THEN binjected
                        ELSE [binjected EXCEPT ![u] = @ \o sent]
        /\ bsent' = IF snd[s].op = "bsend"
                    THEN [bsent EXCEPT ![u] =
                            Append(@, [src |-> u, seq |-> Len(@) + 1,
                                       data_size |-> snd[s].arg])]
                    ELSE bsent
        /\ snd' = [snd EXCEPT ![s] =
             [Finished(@) EXCEPT !.ret = "OK", !.wrote = {}, !.bumps = @ + 1]]
  /\ UNCHANGED <<selector, tail, data, prev_tailpos, processing_mutex,
                 enable_assertions, thr, dispatched, reserved, landed, frozen,
                 granted, tiles>>

\* the other threads of the unit of s have made their calls
Joined(s) ==
  \A r \in Senders \ {s} : snd[r].unit = snd[s].unit => snd[r].pc = "barrier"

\* the remote unit stops sending and enters the barrier of process_blocking
\* (it has no cache to flush and nothing is sent to it)
EnterBarrier(s) ==
  /\ snd[s].pc = "idle"
  /\ ~snd[s].buffered
  /\ snd[s].free
  /\ snd' = [snd EXCEPT ![s] = [Started(@, "pb") EXCEPT !.pc = "barrier"]]
  /\ UNCHANGED <<amsgq, window, prev_tailpos, processing_mutex, enable_assertions,
                 thr, history>>

(* ------------------------------------------------------------------ *)
(* Drainer: amsg_sopnop_process_internal                                *)
(* ------------------------------------------------------------------ *)

\* a failed assertion or a crash in a handler call ends the target unit
Dead == \E t \in Threads : thr[t].pc \in {"aborted", "crashed"}

\* thread t of a live unit stands at pc
At(t, pc) == ~Dead /\ thr[t].pc = pc

\* process_blocking passes blocking = true, process passes false
Blocking(t) == t = "main"

\* line 301
newqueue(q) == IF q = 0 THEN 1 ELSE 0

\* an addend of line 329 that does not depend on the queue number
queue_swap_sum_Increment(q) == 1

\* line 329
queue_swap_sum(q) == IF q = 0 THEN 1 ELSE -1

\* the addend of line 347 with the bias added instead of subtracted
FreezeAddend_BiasAdded(tailpos) == Plus64(Minus64(tailpos), INT32_MAX)

\* the addend of line 347 without the bias: tailpos_sub = -tailpos
FreezeAddend_NoBias(tailpos) == Minus64(tailpos)

\* line 347: tailpos_sub = -tailpos - INT32_MAX
FreezeAddend(tailpos) == Plus64(Minus64(tailpos), Minus64(INT32_MAX))

\* line 315: the quiesce loop ends
QuiesceDone(tmp) == tmp = prev_tailpos

\* line 388: the wait for the active writers ends
WritersDone(readypos, tailpos) == I64(0, readypos) = tailpos

\* line 417: the dispatch walk goes on
WalkOn(pos, tailpos) == IsPos64(Plus64(tailpos, I64(0, 0 - pos)))

\* the test of line 445 without its first operand
Again_WhenPositive(t, tailpos) == IsPos64(tailpos)

\* line 445: process_internal goes round again
Again(t, tailpos) == Blocking(t) /\ IsPos64(tailpos)

\* where the caller of process_internal goes on when it returns
AfterReturn(t) ==
  IF t = "aux" THEN "idle"
  ELSE IF thr[t].phase = "final" THEN "final_barrier" ELSE "test"

\* the locals of process_internal, dead once it has returned.  (tmp is read
\* only in the step that fetches it and is no part of the state; a local that
\* is dead holds its initial value.)
ClearLocals(r) ==
  [r EXCEPT !.queuenum = 0, !.tailpos = Zero64, !.first = 0,
            !.tailpos_sub = Zero64, !.readypos = 0, !.pos = 0]

\* a lock that is granted whatever the state of the mutex
MutexFree_Always(m) == TRUE

\* lines 267 and 272: the mutex m can be taken
MutexFree(m) == m = "free"

\* lines 266-270: the non-blocking try-lock
TryLock(t) ==
  /\ ~Blocking(t)
  /\ At(t, "idle")
  /\ IF MutexFree(processing_mutex)
     THEN /\ processing_mutex' = t
          /\ thr' = [thr EXCEPT ![t] =
               [@ EXCEPT !.pc = "readtail", !.ret = "none",
                         !.queuenum = selector]]
     ELSE /\ processing_mutex' = processing_mutex
          /\ thr' = [thr EXCEPT ![t] = [@ EXCEPT !.ret = "AGAIN"]]
  /\ UNCHANGED <<amsgq, window, prev_tailpos, enable_assertions, snd, history>>

\* lines 271-273: the blocking lock
Lock(t) ==
  /\ Blocking(t)
  /\ At(t, "lock")
  /\ MutexFree(processing_mutex)
  /\ processing_mutex' = t
  /\ thr' = [thr EXCEPT ![t] =
       [@ EXCEPT !.pc = "readtail", !.ret = "none", !.queuenum = selector]]
  /\ UNCHANGED <<amsgq, window, prev_tailpos, enable_assertions, snd, history>>

\* lines 284-296: read the tail of the active queue
ReadTail(t) ==
  /\ At(t, "readtail")
  /\ LET tailpos == tail[thr[t].queuenum]
     IN thr' = [thr EXCEPT ![t] =
          [@ EXCEPT !.tailpos = tailpos,
                    !.pc = IF IsPos64(tailpos) THEN "quiesce" ELSE "loopend"]]
  /\ UNCHANGED <<amsgq, window, prev_tailpos, processing_mutex, enable_assertions,
                 snd, history>>

\* lines 303-315: wait for late senders on the new queue
Quiesce(t) ==
  /\ At(t, "quiesce")
  /\ LET tmp == tail[newqueue(thr[t].queuenum)]
     IN thr' = [thr EXCEPT ![t] =
          [@ EXCEPT !.pc = IF QuiesceDone(tmp) THEN "reset" ELSE "quiesce"]]
  /\ UNCHANGED <<amsgq, window, prev_tailpos, processing_mutex, enable_assertions,
                 snd, history>>

\* lines 317-326: MPI_REPLACE the tail of the new queue by zero
ResetTail(t) ==
  /\ At(t, "reset")
  /\ LET nq == newqueue(thr[t].queuenum)
     IN /\ tail' = [tail EXCEPT ![nq] = Zero64]
        /\ thr' = [thr EXCEPT ![t] = [@ EXCEPT !.pc = "swap"]]
        \* history: a new cycle of sub-queue nq begins
        /\ landed' = [landed EXCEPT ![nq] = {}]
        /\ frozen' = frozen \ {nq}
        /\ granted' = [granted EXCEPT ![nq] = 0]
        /\ tiles' = [tiles EXCEPT ![nq] = {}]
        \* the replacement wipes what the calls under way had added to the tail
        /\ snd' = [s \in Senders |->
             [snd[s] EXCEPT !.net = [@ EXCEPT ![nq] = 0],
                            !.stale = @ \/ (snd[s].pc = "put" /\
                                             snd[s].queuenum = nq)]]
  /\ UNCHANGED <<amsgq, bsent, binjected,
                 selector, ready, data, prev_tailpos, processing_mutex,
                 enable_assertions, sentOK, dispatched, reserved>>

\* lines 328-339: swap the queue number
Swap(t) ==
  /\ At(t, "swap")
  /\ selector' = selector + queue_swap_sum(thr[t].queuenum)
  /\ \E a \in DART_ASSERT(selector = thr[t].queuenum) :
       /\ thr' = [thr EXCEPT ![t] =
            [@ EXCEPT !.pc = IF a[1] THEN "freeze" ELSE "aborted"]]
       /\ enable_assertions' = a[2]
  /\ UNCHANGED <<amsgq, tail, ready, data, prev_tailpos, processing_mutex,
                 snd, history>>

\* lines 342-355: freeze the old queue
Freeze(t) ==
  /\ At(t, "freeze")
  /\ LET q == thr[t].queuenum
         tailpos_sub == FreezeAddend(thr[t].tailpos)
     IN /\ tail' = [tail EXCEPT ![q] = Plus64(@, tailpos_sub)]
        /\ thr' = [thr EXCEPT ![t] =
             [@ EXCEPT !.tailpos_sub = tailpos_sub, !.tailpos = tail[q],
                       !.readypos = 0, !.pc = "waitready"]]
        /\ frozen' = frozen \cup {q}
  /\ UNCHANGED <<amsgq, bsent, binjected,
                 selector, ready, data, prev_tailpos, processing_mutex,
                 enable_assertions, snd, sentOK, dispatched, reserved, landed,
                 granted, tiles>>

\* lines 363-370: read readypos of the frozen queue
WaitReady(t) ==
  /\ At(t, "waitready")
  /\ thr' = [thr EXCEPT ![t] =
       [@ EXCEPT !.readypos = ready[thr[t].queuenum], !.pc = "waittail"]]
  /\ UNCHANGED <<amsgq, window, prev_tailpos, processing_mutex, enable_assertions,
                 snd, history>>

\* lines 372-391: requery the tail, compare, remember the residual
WaitTail(t) ==
  /\ At(t, "waittail")
  /\ LET tmp == tail[thr[t].queuenum]
         tailpos == Plus64(tmp, Minus64(thr[t].tailpos_sub))
         readypos == thr[t].readypos
     IN \E a \in DART_ASSERT(Leq64(I64(0, readypos), tailpos)) :
          /\ enable_assertions' = a[2]
          /\ IF ~a[1]
             THEN /\ thr' = [thr EXCEPT ![t] =
                       [@ EXCEPT !.tailpos = tailpos, !.pc = "aborted"]]
                  /\ UNCHANGED prev_tailpos
             ELSE IF WritersDone(readypos, tailpos)
             THEN /\ thr' = [thr EXCEPT ![t] =
                       [@ EXCEPT !.tailpos = tailpos, !.tailpos_sub = Zero64,
                                 !.pc = "resetready"]]
                  /\ prev_tailpos' = Plus64(thr[t].tailpos_sub, tailpos)
             ELSE /\ thr' = [thr EXCEPT ![t] =
                       [@ EXCEPT !.tailpos = tailpos, !.pc = "waitready"]]
                  /\ UNCHANGED prev_tailpos
  /\ UNCHANGED <<amsgq, window, processing_mutex, snd, history>>

\* lines 395-415: MPI_REPLACE readypos by zero, start the walk
ResetReady(t) ==
  /\ At(t, "resetready")
  /\ ready' = [ready EXCEPT ![thr[t].queuenum] = 0]
  /\ thr' = [thr EXCEPT ![t] =
       [@ EXCEPT !.readypos = 0, !.pos = 0, !.pc = "dispatch",
                 !.first = Len(dispatched)]]
  /\ UNCHANGED <<amsgq, selector, tail, data, prev_tailpos, processing_mutex,
                 enable_assertions, snd, history>>

\* the cell at dbuf + i of queue q; the walk may run past the sub-queue into
\* what follows it in the window
OutsideCell == [src |-> "outside", seq |-> 0, idx |-> 0, data_size |-> 0]

ReadCell(q, i) ==
  LET a == q * queue_size + i
  IN IF a < 2 * queue_size
     THEN data[a \div queue_size][a % queue_size]
     ELSE OutsideCell

\* line 426: the size the walk reads from the cell it takes for a header; the
\* size field of a cell that is no header is whatever bytes lie there
HeaderSizes(h) == IF IsHeader(h) THEN {h.data_size} ELSE 0..msg_size

\* the step of lines 423-425 with pos assigned instead of advanced
NextPos_Assigned(pos, d) == HeaderSize + d

\* lines 423-425: the walk steps over the header and data_size bytes of payload
NextPos(pos, d) == pos + HeaderSize + d

\* lines 417-443: one round of the dispatch walk
Dispatch(t) ==
  /\ At(t, "dispatch")
  /\ WalkOn(thr[t].pos, thr[t].tailpos)
  /\ LET q == thr[t].queuenum
         pos == thr[t].pos
         header == ReadCell(q, pos)
     IN \E d \in HeaderSizes(header) :
          LET newpos == NextPos(pos, d)
              payload == [i \in 1..d |-> ReadCell(q, pos + HeaderSize + i - 1)]
          IN \E a \in DART_ASSERT(Leq64(I64(0, newpos), thr[t].tailpos)) :
               /\ enable_assertions' = a[2]
               /\ IF ~a[1]
                  THEN /\ thr' = [thr EXCEPT ![t] =
                            [@ EXCEPT !.pos = newpos, !.pc = "aborted"]]
                       /\ UNCHANGED dispatched
                  ELSE \* header->fn(data): a call through bytes that are no
                       \* function pointer either returns or crashes
                       \E returns \in (IF IsHeader(header) THEN {TRUE}
                                                          ELSE BOOLEAN) :
                         IF returns
                         THEN /\ thr' = [thr EXCEPT ![t] =
                                   [@ EXCEPT !.pos = newpos]]
                              /\ dispatched' = Append(dispatched,
                                   [queue |-> q, pos |-> pos,
                                    header |-> header, payload |-> payload,
                                    landed |-> \A c \in pos..(newpos - 1) :
                                                 c \in landed[q]])
                         ELSE /\ thr' = [thr EXCEPT ![t] =
                                   [@ EXCEPT !.pos = newpos, !.pc = "crashed"]]
                              /\ UNCHANGED dispatched
  /\ UNCHANGED <<amsgq, bsent, binjected,
                 window, prev_tailpos, processing_mutex, snd, sentOK,
                 reserved, landed, frozen, granted,
                 tiles>>

\* lines 444-447: the end of the do-loop: go round again or unlock and return
LoopEnd(t) ==
  /\ (At(t, "loopend") \/ (At(t, "dispatch") /\ ~WalkOn(thr[t].pos, thr[t].tailpos)))
  /\ IF Again(t, thr[t].tailpos)
     THEN /\ thr' = [thr EXCEPT ![t] =
               [ClearLocals(@) EXCEPT !.pc = "readtail", !.queuenum = selector]]
          /\ UNCHANGED processing_mutex
     ELSE /\ thr' = [thr EXCEPT ![t] =
               [ClearLocals(@) EXCEPT !.pc = AfterReturn(t), !.ret = "OK"]]
          /\ processing_mutex' = "free"
  /\ UNCHANGED <<amsgq, window, prev_tailpos, enable_assertions, snd, history>>

(* ------------------------------------------------------------------ *)
(* dart_amsg_sopnop_process_blocking on the target's main thread        *)
(* ------------------------------------------------------------------ *)

\* MPI_Test on the Ibarrier request: every unit of the team has entered
BarrierFlag == \A s \in Senders : snd[s].pc = "barrier"

\* lines 507-511: flush_buffer (no cache is allocated) and MPI_Ibarrier
PBStart(t) ==
  /\ At(t, "pb_start")
  /\ thr' = [thr EXCEPT ![t] = [@ EXCEPT !.pc = "lock", !.phase = "loop"]]
  /\ UNCHANGED <<amsgq, window, prev_tailpos, processing_mutex, enable_assertions,
                 snd, history>>

\* lines 512-516: MPI_Test after a round of process_internal
PBTest(t) ==
  /\ At(t, "test")
  /\ thr' = [thr EXCEPT ![t] =
       [@ EXCEPT !.pc = "lock",
                 !.phase = IF BarrierFlag THEN "final" ELSE "loop"]]
  /\ UNCHANGED <<amsgq, window, prev_tailpos, processing_mutex, enable_assertions,
                 snd, history>>

\* lines 517-518: the closing MPI_Barrier and the return
PBReturn(t) ==
  /\ At(t, "final_barrier")
  /\ BarrierFlag
  /\ thr' = [thr EXCEPT ![t] = [@ EXCEPT !.pc = "done"]]
  /\ UNCHANGED <<amsgq, window, prev_tailpos, processing_mutex, enable_assertions,
                 snd, history>>

(* ------------------------------------------------------------------ *)
(* Coalescing cache: dart_amsg_sopnop_bsend,                            *)
(* dart_amsg_sopnop_flush_buffer, dart_amsg_sopnop_closeq               *)
(* ------------------------------------------------------------------ *)

\* the struct dart_amsgq_impl_data and the cache thread s works on
Amsgq(s) == amsgq[snd[s].unit]

Cache(s) == Amsgq(s).cache

\* lines 530 and 532: message_cache[target.id] == NULL
SlotNull(c) == c.block = "none"

\* a test of line 469 that never finds the cache empty
CacheEmpty_Never(c) == FALSE

\* line 469: cache->pos == 0
CacheEmpty(c) == c.pos = 0

\* line 541: the message does not fit behind what the cache holds
Overflows(c, d) == c.pos + HeaderSize + d > MSGCACHE_SIZE

\* lines 467 and 540: the lock of cache->mutex can be taken.  The memory of a
\* mutex that dart__base__mutex_init has not reached yet is whatever malloc
\* returned; the lock blocks on it for ever or takes it as if it were free.
CacheMutexFree(c) == c.mutex \in {"free", "uninit"}

\* line 530: bsend tests the slot of the target without holding a lock
BSend(s, d) ==
  /\ snd[s].pc = "idle"
  /\ snd[s].buffered
  /\ snd[s].left > 0
  /\ d <= snd[s].max_data
  /\ snd' = [snd EXCEPT ![s] =
       [Started(@, "bsend") EXCEPT
          !.arg = d,
          !.pc = IF SlotNull(Cache(s)) THEN "b_alloc" ELSE "b_cache"]]
  /\ UNCHANGED <<amsgq, window, prev_tailpos, processing_mutex,
                 enable_assertions, thr, history>>

\* lines 531-533: lock send_mutex, test the slot again, store the block malloc
\* returned in it (its pos is whatever the block holds); or find the slot
\* filled and unlock (line 537)
BAlloc(s) ==
  /\ snd[s].pc = "b_alloc"
  /\ MutexFree(Amsgq(s).send_mutex)
  /\ IF SlotNull(Cache(s))
     THEN \E garbage \in 0..MSGCACHE_SIZE :
            /\ amsgq' = [amsgq EXCEPT ![snd[s].unit] =
                 [@ EXCEPT !.send_mutex = s,
                           !.cache = [block |-> "allocated", pos |-> garbage,
                                      mutex |-> "uninit",
                                      buffer |-> EmptyBuffer]]]
            /\ snd' = [snd EXCEPT ![s] = [@ EXCEPT !.pc = "b_initpos"]]
     ELSE /\ snd' = [snd EXCEPT ![s] = [@ EXCEPT !.pc = "b_cache"]]
          /\ UNCHANGED amsgq
  /\ UNCHANGED <<window, prev_tailpos, processing_mutex, enable_assertions,
                 thr, history>>

\* line 534: message_cache[target.id]->pos = 0
BInitPos(s) ==
  /\ snd[s].pc = "b_initpos"
  /\ amsgq' = [amsgq EXCEPT ![snd[s].unit] =
       [@ EXCEPT !.cache = Emptied(@)]]
  /\ snd' = [snd EXCEPT ![s] = [@ EXCEPT !.pc = "b_initmutex"]]
  /\ UNCHANGED <<window, prev_tailpos, processing_mutex, enable_assertions,
                 thr, history>>

\* lines 535-537: initialise the mutex of the cache, unlock send_mutex
BInitMutex(s) ==
  /\ snd[s].pc = "b_initmutex"
  /\ amsgq' = [amsgq EXCEPT ![snd[s].unit] =
       [@ EXCEPT !.cache = [@ EXCEPT !.mutex = "free"],
                 !.send_mutex = "free"]]
  /\ snd' = [snd EXCEPT ![s] = [@ EXCEPT !.pc = "b_cache"]]
  /\ UNCHANGED <<window, prev_tailpos, processing_mutex, enable_assertions,
                 thr, history>>

\* lines 539-569: lock the cache; if the message fits, append it, unlock and
\* return DART_OK; if not, hand what the cache holds to sendbuf
BCache(s) ==
  /\ snd[s].pc = "b_cache"
  /\ CacheMutexFree(Cache(s))
  /\ LET u == snd[s].unit
         d == snd[s].arg
     IN IF Overflows(Cache(s), d)
        THEN /\ amsgq' = [amsgq EXCEPT ![u] =
                  [@ EXCEPT !.cache = [@ EXCEPT !.mutex = s]]]
             /\ \E a \in DART_ASSERT(selector \in Queues) :
                  /\ enable_assertions' = a[2]
                  /\ snd' = [snd EXCEPT ![s] = Fetched(@, Cache(s).pos, a)]
             /\ UNCHANGED bsent
        ELSE /\ amsgq' = [amsgq EXCEPT ![u] =
                  [@ EXCEPT !.cache =
                     [Appended(@, u, Len(bsent[u]) + 1, d) EXCEPT
                        !.mutex = "free"]]]
             /\ bsent' = [bsent EXCEPT ![u] =
                  Append(@, [src |-> u, seq |-> Len(@) + 1, data_size |-> d])]
             /\ snd' = [snd EXCEPT ![s] = [Finished(@) EXCEPT !.ret = "OK"]]
             /\ UNCHANGED enable_assertions
  /\ UNCHANGED <<window, prev_tailpos, processing_mutex, thr, sentOK,
                 dispatched, reserved, landed, frozen, granted, tiles,
                 binjected>>

\* lines 461-466 and 494-496: flush_buffer locks send_mutex and looks at the
\* slots; with no cache allocated it unlocks and returns DART_OK
FlushBuffer(s, op) ==
  /\ snd[s].pc = "idle"
  /\ snd[s].buffered
  /\ MutexFree(Amsgq(s).send_mutex)
  /\ IF SlotNull(Cache(s))
     THEN /\ snd' = [snd EXCEPT ![s] =
               [Finished(Started(@, op)) EXCEPT !.ret = "OK", !.empty = TRUE]]
          /\ UNCHANGED amsgq
     ELSE /\ snd' = [snd EXCEPT ![s] = [Started(@, op) EXCEPT !.pc = "f_cache"]]
          /\ amsgq' = [amsgq EXCEPT ![snd[s].unit] =
               [@ EXCEPT !.send_mutex = s]]
  /\ UNCHANGED <<window, prev_tailpos, processing_mutex, enable_assertions,
                 thr, history>>

\* the flush call of the application
Flush(s) ==
  /\ snd[s].left > 0
  /\ FlushBuffer(s, "flush")

\* line 508: process_blocking begins with flush_buffer; it is called by the
\* main thread of the unit when the other threads have made their calls
ProcessBlocking(s) ==
  /\ snd[s].free
  /\ Joined(s)
  /\ FlushBuffer(s, "pb")

\* lines 467-478: lock the cache; if it is empty unlock it, unlock send_mutex
\* and return DART_OK; if not, hand what it holds to sendbuf
FCache(s) ==
  /\ snd[s].pc = "f_cache"
  /\ CacheMutexFree(Cache(s))
  /\ IF CacheEmpty(Cache(s))
     THEN /\ amsgq' = [amsgq EXCEPT ![snd[s].unit] =
               [@ EXCEPT !.cache = [@ EXCEPT !.mutex = "free"],
                         !.send_mutex = "free"]]
          /\ snd' = [snd EXCEPT ![s] =
               [Finished(@) EXCEPT !.ret = "OK", !.empty = TRUE]]
          /\ UNCHANGED enable_assertions
     ELSE /\ amsgq' = [amsgq EXCEPT ![snd[s].unit] =
               [@ EXCEPT !.cache = [@ EXCEPT !.mutex = s]]]
          /\ \E a \in DART_ASSERT(selector \in Queues) :
               /\ enable_assertions' = a[2]
               /\ snd' = [snd EXCEPT ![s] = Fetched(@, Cache(s).pos, a)]
  /\ UNCHANGED <<window, prev_tailpos, processing_mutex, thr, history>>

\* lines 481 and 548 (266-270): after DART_ERR_AGAIN the unit calls
\* process_internal(amsgq, false) on its own queue, which try-locks its
\* processing_mutex; if that fails it returns at once and sendbuf is called
\* again
OwnTryLock(s) ==
  /\ snd[s].pc = "process"
  /\ IF MutexFree(Amsgq(s).processing_mutex)
     THEN /\ amsgq' = [amsgq EXCEPT ![snd[s].unit] =
               [@ EXCEPT !.processing_mutex = s]]
          /\ snd' = [snd EXCEPT ![s] =
               [@ EXCEPT !.pc = "own_readtail", !.drain = "retry"]]
          /\ UNCHANGED enable_assertions
     ELSE /\ \E a \in DART_ASSERT(selector \in Queues) :
               /\ enable_assertions' = a[2]
               /\ snd' = [snd EXCEPT ![s] = Fetched(@, Cache(s).pos, a)]
          /\ UNCHANGED amsgq
  /\ UNCHANGED <<window, prev_tailpos, processing_mutex, thr, history>>

\* the caller of process_internal goes on: flush_buffer and bsend call sendbuf
\* again (lines 478 and 545), process_blocking has left its loop (line 516);
\* a is the outcome of the assertion of line 160
AfterOwnProcess(r, c, a) ==
  IF r.drain = "retry"
  THEN [Fetched(r, c.pos, a) EXCEPT !.drain = "none"]
  ELSE [r EXCEPT !.pc = "barrier", !.drain = "none"]

\* lines 278-296 and 445-447 on the unit's own queue: if the tail read is
\* zero process_internal unlocks and returns; if not, the drain cycle of lines
\* 296-411 (modelled in full at the target) leads to the walk over the
\* messages the tail covers
OwnReadTail(s) ==
  /\ snd[s].pc = "own_readtail"
  /\ IF Amsgq(s).own_tail = 0
     THEN /\ amsgq' = [amsgq EXCEPT ![snd[s].unit] =
               [@ EXCEPT !.processing_mutex = "free"]]
          /\ \E a \in DART_ASSERT(selector \in Queues) :
               /\ enable_assertions' = IF snd[s].drain = "retry"
                                       THEN a[2] ELSE enable_assertions
               /\ snd' = [snd EXCEPT ![s] = AfterOwnProcess(@, Cache(s), a)]
     ELSE /\ amsgq' = [amsgq EXCEPT ![snd[s].unit] =
               [@ EXCEPT !.own_tail = 0]]
          /\ snd' = [snd EXCEPT ![s] =
               [@ EXCEPT !.pc = "own_dispatch", !.walk = Amsgq(s).own_tail]]
          /\ UNCHANGED enable_assertions
  /\ UNCHANGED <<window, prev_tailpos, processing_mutex, thr, history>>

\* a peer's try_send to the unit has returned DART_OK: its message lies in the
\* active sub-queue of the unit's window
PeerSend(u) ==
  /\ amsgq[u].incoming > 0
  /\ amsgq' = [amsgq EXCEPT ![u] =
       [@ EXCEPT !.incoming = @ - 1, !.own_tail = @ + 1]]
  /\ UNCHANGED <<window, prev_tailpos, processing_mutex, enable_assertions,
                 snd, thr, history>>

\* lines 512-516 (271-273): process_blocking, after flush_buffer, calls
\* process_internal(amsgq, true) on the queue of its unit until every unit has
\* entered the barrier; only the calls that find a message are shown
OwnLock(s) ==
  /\ snd[s].pc = "barrier"
  /\ snd[s].op = "pb"
  /\ snd[s].buffered
  /\ Amsgq(s).own_tail > 0
  /\ MutexFree(Amsgq(s).processing_mutex)
  /\ amsgq' = [amsgq EXCEPT ![snd[s].unit] =
       [@ EXCEPT !.processing_mutex = s]]
  /\ snd' = [snd EXCEPT ![s] =
       [@ EXCEPT !.pc = "own_readtail", !.drain = "pb"]]
  /\ UNCHANGED <<window, prev_tailpos, processing_mutex, enable_assertions,
                 thr, history>>

\* line 441 with a handler that sends a header-only message to the target by
\* bsend: header->fn(data) enters dart_amsg_sopnop_bsend and tests the slot
\* (line 530)
HandlerBSend(s) ==
  /\ snd[s].pc = "own_dispatch"
  /\ snd[s].walk > 0
  /\ snd' = [snd EXCEPT ![s] =
       [@ EXCEPT !.op = "bsend", !.ctx = snd[s].op, !.arg = 0,
                 !.walk = @ - 1,
                 !.pc = IF SlotNull(Cache(s)) THEN "b_alloc" ELSE "b_cache"]]
  /\ UNCHANGED <<amsgq, window, prev_tailpos, processing_mutex,
                 enable_assertions, thr, history>>

\* lines 417 and 445-447 on the unit's own queue: the walk is over; a blocking
\* process_internal reads the tail again, a non-blocking one unlocks and
\* returns
OwnLoopEnd(s) ==
  /\ snd[s].pc = "own_dispatch"
  /\ snd[s].walk = 0
  /\ IF snd[s].drain = "pb"
     THEN /\ snd' = [snd EXCEPT ![s] = [@ EXCEPT !.pc = "own_readtail"]]
          /\ UNCHANGED <<amsgq, enable_assertions>>
     ELSE /\ amsgq' = [amsgq EXCEPT ![snd[s].unit] =
               [@ EXCEPT !.processing_mutex = "free"]]
          /\ \E a \in DART_ASSERT(selector \in Queues) :
               /\ enable_assertions' = a[2]
               /\ snd' = [snd EXCEPT ![s] = AfterOwnProcess(@, Cache(s), a)]
  /\ UNCHANGED <<window, prev_tailpos, processing_mutex, thr, history>>

\* lines 572-610 at a remote unit, after process_blocking has returned: the
\* window and the communicator are released, the slot table is freed (line
\* 603), the struct is freed
CloseQ(s) ==
  /\ snd[s].pc = "barrier"
  /\ snd[s].unit = s
  /\ thr["main"].pc \in {"done", "closed"}
  /\ amsgq[s].incoming = 0 /\ amsgq[s].own_tail = 0
  /\ amsgq' = [amsgq EXCEPT ![s] = [@ EXCEPT !.message_cache = "freed"]]
  /\ snd' = [snd EXCEPT ![s] = [@ EXCEPT !.pc = "closed"]]
  /\ UNCHANGED <<window, prev_tailpos, processing_mutex, enable_assertions,
                 thr, history>>

\* lines 572-610 at the target: the tail of the active queue is read and a
\* warning logged if it is positive; no handler is invoked
CloseQTarget(t) ==
  /\ At(t, "done")
  /\ thr' = [thr EXCEPT ![t] = [@ EXCEPT !.pc = "closed"]]
  /\ UNCHANGED <<amsgq, window, prev_tailpos, processing_mutex,
                 enable_assertions, snd, history>>

CacheStep ==
  \/ \E s \in Senders :
       \/ \E d \in 0..msg_size : BSend(s, d)
       \/ BAlloc(s)
       \/ BInitPos(s)
       \/ BInitMutex(s)
       \/ BCache(s)
       \/ Flush(s)
       \/ ProcessBlocking(s)
       \/ FCache(s)
       \/ OwnTryLock(s)
       \/ OwnReadTail(s)
       \/ CloseQ(s)
  \/ CloseQTarget("main")

\* what the cache operations do when peers send to the unit as well
HandlerStep ==
  \/ \E u \in Senders : PeerSend(u)
  \/ \E s \in Senders :
       \/ OwnLock(s)
       \/ HandlerBSend(s)
       \/ OwnLoopEnd(s)

(* ------------------------------------------------------------------ *)
(* Specification                                                        *)
(* ------------------------------------------------------------------ *)

SenderStep ==
  \E s \in Senders :
    \/ \E d \in 0..msg_size : TrySend(s, d)
    \/ Reserve(s)
    \/ Rollback(s)
    \/ Put(s)
    \/ Signal(s)
    \/ EnterBarrier(s)

DrainerStep ==
  \E t \in Threads :
    \/ Lock(t)
    \/ ReadTail(t)
    \/ Quiesce(t)
    \/ ResetTail(t)
    \/ Swap(t)
    \/ Freeze(t)
    \/ WaitReady(t)
    \/ WaitTail(t)
    \/ ResetReady(t)
    \/ Dispatch(t)
    \/ LoopEnd(t)
    \/ PBStart(t)
    \/ PBTest(t)
    \/ PBReturn(t)

Next == SenderStep \/ DrainerStep

\* two remote senders, one of messages with payloads up to msg_size and one of
\* header-only messages; the target drains in process_blocking
Init ==
  InitWith([s \in Senders |-> IF s \in {"s1", "s2"} THEN MaxSends ELSE 0],
           [s \in Senders |-> IF s = "s1" THEN msg_size ELSE 0],
           Senders, {"main"})

Spec == Init /\ [][Next]_vars

\* one unit sends a stream of header-only messages while the two others send
\* theirs
InitLoad ==
  InitWith([s \in Senders |-> IF s = "s1" THEN StreamSends ELSE MaxSends],
           [s \in Senders |-> 0], {"s1"}, {"main"})

SpecLoad == InitLoad /\ [][Next]_vars

\* a second thread of the target polls with the non-blocking process
InitMT ==
  InitWith([s \in Senders |-> IF s = "s1" THEN MaxSends + 1 ELSE 0],
           [s \in Senders |-> msg_size], Senders, Threads)

NextMT == Next \/ TryLock("aux")

SpecMT == InitMT /\ [][NextMT]_vars

\* the steps of sendbuf, whoever called it
SendbufStep ==
  \E s \in Senders :
    \/ Reserve(s)
    \/ Rollback(s)
    \/ Put(s)
    \/ Signal(s)

NextCache == CacheStep \/ SendbufStep \/ DrainerStep

\* one remote unit with two threads that send with bsend and flush; s1, its
\* main thread, goes on to process_blocking and closeq
InitCache ==
  InitUnits([s \in Senders |-> IF s = "s3" THEN 0 ELSE MaxSends],
            [s \in Senders |-> IF s = "s1" THEN msg_size ELSE 0],
            {"s1"}, {"main"},
            [s \in Senders |-> IF s = "s3" THEN "s3" ELSE "s1"],
            {"s1", "s2"})

SpecCache == InitCache /\ [][NextCache]_vars

\* one remote unit with one thread, which makes up to MaxSends + 1 calls of
\* bsend and flush, then process_blocking and closeq
InitFlush ==
  InitUnits([s \in Senders |-> IF s = "s1" THEN MaxSends + 1 ELSE 0],
            [s \in Senders |-> msg_size],
            {"s1"}, {"main"}, [s \in Senders |-> s], {"s1"})

SpecFlush == InitFlush /\ [][NextCache]_vars

\* one thread of unit s1 calls bsend often enough for the overflow drain to
\* meet a target that drains, then process_blocking; a peer sends the unit a
\* message whose handler calls bsend
InitHandler ==
  InitQueues([s \in Senders |-> IF s = "s1" THEN MaxSends + 2 ELSE 0],
             [s \in Senders |-> msg_size],
             {"s1"}, {"main"}, [s \in Senders |-> s], {"s1"},
             [u \in Senders |-> IF u = "s1" THEN MaxSends ELSE 0])

NextHandler == NextCache \/ HandlerStep

SpecHandler == InitHandler /\ [][NextHandler]_vars

\* try_send called with a data_size one above the msg_size given to openq
TrySendOversize(s) == TrySend(s, msg_size + 1)

\* as Init, but the application of unit s1 does not keep to msg_size
InitOversize ==
  InitWith([s \in Senders |-> IF s \in {"s1", "s2"} THEN MaxSends ELSE 0],
           [s \in Senders |-> IF s = "s1" THEN msg_size + 1 ELSE 0],
           Senders, {"main"})

NextOversize == Next \/ \E s \in Senders : TrySendOversize(s)

SpecOversize == InitOversize /\ [][NextOversize]_vars

(* ------------------------------------------------------------------ *)
(* Properties                                                           *)
(* ------------------------------------------------------------------ *)

\* the handler invocation rec is that of message m, header and payload intact
Intact(rec, m) ==
  /\ rec.header = HeaderCell(m.src, m.seq, m.data_size)
  /\ rec.payload = [i \in 1..m.data_size |-> PayloadCell(m.src, m.seq, i)]

Invocations(m) == {i \in 1..Len(dispatched) : Intact(dispatched[i], m)}

\* process_blocking has returned on the target
Drained == thr["main"].pc = "done"

\* C1: exactly-once delivery.  Once process_blocking has returned on the
\* target, every message whose trysend returned DART_OK has been handed to a
\* handler exactly once with its own header and payload, and no handler was
\* invoked on anything else.
C1_ExactlyOnce ==
  Drained =>
    /\ \A m \in sentOK : Cardinality(Invocations(m)) = 1
    /\ \A i \in 1..Len(dispatched) :
         \E m \in sentOK : Intact(dispatched[i], m)

\* C2: the drainer never reads bytes that have not landed.  Every cell a
\* handler invocation read (header and payload) had been written, in the
\* current cycle of its sub-queue, by a put that completed before the drainer
\* left its wait loop, and by no put since.
C2_ReadsLanded == \A i \in 1..Len(dispatched) : dispatched[i].landed

\* a sender stands between a failed fetch-and-add and its rollback
RollbackPending == \E s \in Senders : snd[s].pc = "rollback"

\* C3: on the active sub-queue j = selector, 0 <= ready[j] <= tail[j] <= Q,
\* taken in the states in which no failed reservation awaits its rollback.
C3_ActiveBounds ==
  ~RollbackPending =>
    /\ 0 <= ready[selector]
    /\ Leq64(I64(0, ready[selector]), tail[selector])
    /\ Leq64(tail[selector], I64(0, queue_size))

\* C7: when the last process_internal of process_blocking has returned on the
\* target, every message whose trysend returned DART_OK before its sender
\* entered the barrier has been handed to a handler.
C7_BlockingDrainsAll ==
  thr["main"].pc \in {"final_barrier", "done"} =>
    \A m \in sentOK : Invocations(m) # {}

\* no send is under way and no thread of the target is draining
Quiescent ==
  /\ \A s \in Senders : snd[s].pc \in {"idle", "barrier"}
  /\ processing_mutex = "free"

\* C8: ERR_AGAIN is never permanent.  No quiescent state leaves a negative
\* tail on the active sub-queue: in such a state every later fetch-and-add
\* returns a negative offset and is rolled back to the same value, and process
\* reads a tail that is not positive and drains nothing, so every later
\* trysend fails.
C8_NeverStuck == Quiescent => ~IsNeg64(tail[selector])

\* C4: a failed send is neutral.  A trysend that returned DART_ERR_AGAIN made
\* one fetch-and-add, wrote no cell, bumped no readypos, and left nothing of
\* its own in either tail.
C4_FailedSendNeutral ==
  \A s \in Senders :
    snd[s].ret = "AGAIN" =>
      /\ snd[s].attempts = 1
      /\ \A q \in Queues : snd[s].net[q] = 0
      /\ snd[s].wrote = {}
      /\ snd[s].bumps = 0

\* C5: no reservation succeeds on a frozen sub-queue.  A sender whose
\* fetch-and-add hit the tail of a sub-queue between its freeze and its next
\* replacement by zero fetched a negative offset, goes to the rollback and
\* writes nothing.
C5_FrozenRejects ==
  \A s \in Senders :
    snd[s].on_frozen =>
      /\ IsNeg64(snd[s].offset)
      /\ snd[s].pc = "rollback"
      /\ snd[s].wrote = {}

\* a late sender has hit a frozen tail and stands before its rollback
C5_Witness ==
  \E s \in Senders :
    /\ snd[s].on_frozen
    /\ snd[s].pc = "rollback"
    /\ snd[s].queuenum \in frozen

\* C6: puts stay inside the sub-queue.  A sender that goes on to the put holds
\* an offset with 0 <= offset and offset + n <= queue_size, the cells it wrote
\* are cells of the data region of the sub-queue it reserved on, and a sender
\* whose reservation overran queue_size goes to the rollback having written
\* nothing.
C6_PutInBounds ==
  \A s \in Senders :
    /\ snd[s].pc = "put" =>
         /\ ~IsNeg64(snd[s].offset)
         /\ snd[s].offset.hi = 0
         /\ PutRange(snd[s].offset, snd[s].msg_size) \subseteq Cells
    /\ snd[s].pc = "signal" =>
         /\ snd[s].wrote = PutRange(snd[s].offset, snd[s].msg_size)
         /\ snd[s].wrote # {}
         /\ snd[s].wrote \subseteq Cells
    /\ snd[s].pc = "rollback" => snd[s].wrote = {}

\* one sender has put its message while the reservation of another overran
\* the end of the sub-queue
C6_Witness ==
  \E s, r \in Senders :
    /\ snd[s].pc = "signal"
    /\ snd[s].wrote # {}
    /\ snd[r].pc = "rollback"
    /\ ~IsNeg64(snd[r].offset)
    /\ snd[r].offset.lo + snd[r].msg_size > queue_size

\* thread t is inside the drain section of process_internal
InDrain(t) ==
  thr[t].pc \in {"readtail", "quiesce", "reset", "swap", "freeze", "waitready",
                 "waittail", "resetready", "dispatch", "loopend"}

\* at most one thread is inside the drain section, and it holds the mutex
MutualExclusion ==
  /\ Cardinality({t \in Threads : InDrain(t)}) <= 1
  /\ \A t \in Threads : InDrain(t) => processing_mutex = t

\* a step in which the try-lock of thread t fails: it returns DART_ERR_AGAIN,
\* stays outside the drain section, and leaves the window, prev_tailpos, the
\* mutex and the handler invocations as they were
TryLockFails(t) ==
  (thr'[t].ret = "AGAIN" /\ thr[t].ret # "AGAIN") =>
    /\ ~MutexFree(processing_mutex)
    /\ ~InDrain(t)'
    /\ UNCHANGED <<window, prev_tailpos, processing_mutex, dispatched>>

\* C10: mutual exclusion of the drain section by processing_mutex, and a
\* non-blocking process whose try-lock fails returns DART_ERR_AGAIN without
\* touching selector, tail, ready or prev_tailpos and without invoking a
\* handler.
C10_OneDrainer ==
  /\ []MutualExclusion
  /\ [][\A t \in Threads : TryLockFails(t)]_vars

\* the polling thread was turned away while the main thread was dispatching
C10_Witness ==
  /\ thr["aux"].ret = "AGAIN"
  /\ thr["aux"].pc = "idle"
  /\ thr["main"].pc = "dispatch"
  /\ processing_mutex = "main"

\* the successful reservation of the message a handler invocation was made on
ReservationOf(rec) ==
  {r \in reserved : /\ r.src = rec.header.src
                    /\ r.seq = rec.header.seq
                    /\ r.queue = rec.queue}

\* the handler invocations of the dispatch walk thread t is in
Batch(t) == (thr[t].first + 1)..Len(dispatched)

BeforeSwap(t) ==
  thr[t].pc \in {"readtail", "quiesce", "reset", "swap", "loopend"}

\* thread t is in a drain cycle and has swapped the queue number
AfterSwap(t) ==
  thr[t].pc \in {"freeze", "waitready", "waittail", "resetready", "dispatch"}

\* the queue number is 0 or 1, and so is every queue number a sender or a
\* drainer has fetched; a drainer that has not swapped yet sees the queue
\* number it loaded, one that has swapped sees the other one
SelectorInRange ==
  /\ selector \in Queues
  /\ \A s \in Senders : snd[s].queuenum \in Queues /\ snd[s].pc # "aborted"
  /\ \A t \in Threads :
       /\ thr[t].queuenum \in Queues
       /\ BeforeSwap(t) => selector = thr[t].queuenum
       /\ AfterSwap(t) => selector = newqueue(thr[t].queuenum)

\* a step that changes the queue number is the swap of the thread that holds
\* processing_mutex, takes it from the value the thread loaded to the other
\* one, and passes the assertion of line 338
SelectorWrittenBySwap ==
  selector' # selector =>
    \E t \in Threads :
      /\ thr[t].pc = "swap"
      /\ processing_mutex = t
      /\ selector = thr[t].queuenum
      /\ selector' = newqueue(thr[t].queuenum)
      /\ thr'[t].pc = "freeze"

\* no swap ends in a failed assertion
SwapAssertHolds ==
  \A t \in Threads : thr[t].pc = "swap" => thr'[t].pc # "aborted"

\* C11: the selector is 0 or 1 in every reachable state, it is written only by
\* the drainer of the owning unit, every drain cycle toggles it exactly once,
\* and the value the swapping fetch-and-add returns is the one the drainer
\* loaded at the start of the cycle: the assertions on the queue number in
\* sendbuf (line 160) and in process_internal (line 338) never fail.
C11_SelectorToggle ==
  /\ []SelectorInRange
  /\ [][SelectorWrittenBySwap /\ SwapAssertHolds]_vars

\* a second drain cycle has swapped the queue number back to 0
C11_Witness ==
  \E t \in Threads :
    /\ thr[t].pc = "dispatch"
    /\ thr[t].queuenum = 1
    /\ selector = 0

\* the sub-queue writers are not directed to
Inactive == newqueue(selector)

Resets(t) == thr[t].pc = "reset" /\ thr'[t].pc = "swap"

\* C19: quiesce-then-reset is race-free.  When the drainer replaces tail[q'] by
\* zero, no sender stands between a failed fetch-and-add on tail[q'] and its
\* rollback, so no rollback lands on tail[q'] after the reset.
C19_ResetRaceFree ==
  [][\A t \in Threads :
       Resets(t) =>
         \A s \in Senders :
           ~(snd[s].pc = "rollback" /\
             snd[s].queuenum = newqueue(thr[t].queuenum))]_vars

\* thread t is about to requery the tail in its wait loop, and the readypos
\* it has read exceeds the tail it will recover: the assertion of line 386
\* fails in its next step
WaitAssertFails(t) ==
  /\ At(t, "waittail")
  /\ ~Leq64(I64(0, thr[t].readypos),
            Plus64(tail[thr[t].queuenum], Minus64(thr[t].tailpos_sub)))

\* thread t has left its wait loop with a tail_now that is the sum of the
\* sizes of the reservations that succeeded on its sub-queue in this cycle
ExitExact(t) ==
  thr[t].pc = "resetready" =>
    thr[t].tailpos = I64(0, granted[thr[t].queuenum])

\* C20: in the wait for the writers of the frozen sub-queue q the assertion
\* ready[q] <= tail_now holds on every iteration, and when the loop has ended
\* tail_now is the sum of the sizes of the reservations that succeeded on q in
\* this cycle.
C20_WaitLoopExact ==
  \A t \in Threads : ~WaitAssertFails(t) /\ ExitExact(t)

\* a step in which thread t invokes header->fn(data) (line 441) and the
\* handler returns
InvokesHandler(t) ==
  /\ thr[t].pc = "dispatch"
  /\ thr'[t] # thr[t]
  /\ Len(dispatched') = Len(dispatched) + 1

\* C17: no lock of the queue is held by the dispatching thread at the moment a
\* handler is invoked; here for processing_mutex, which process_internal
\* takes at lines 266-273 and releases at line 446.
C17_NoLockAtDispatch ==
  [][\A t \in Threads : InvokesHandler(t) => processing_mutex # t]_vars

\* thread s is in amsg_sopnop_process_internal on the queue of its own unit:
\* at the try-lock of processing_mutex or holding it
InOwnProcess(s) ==
  \/ snd[s].pc = "process"
  \/ Amsgq(s).processing_mutex = s

\* C18: senders never acquire processing_mutex: no thread in try_send or in
\* bsend, the overflow drain of bsend included, locks or try-locks it.
C18_SendersNeverLock ==
  \A s \in Senders : snd[s].op \in {"trysend", "bsend"} => ~InOwnProcess(s)

\* the messages the cache of unit u holds below pos, in order
CachedMessages(u) ==
  MessagesIn([i \in 1..amsgq[u].cache.pos |-> amsgq[u].cache.buffer[i]])

\* flush_buffer, called by thread s from process_blocking, has returned
\* DART_OK
Flushed(s) == snd[s].op = "pb" /\ snd[s].pc \in {"barrier", "closed"}

\* C13: coalescing cache delivery.  The messages bsend has accepted are, in
\* the order of their acceptance, those injected into the queue of the target
\* followed by those the cache holds below pos: each stays in the cache until
\* a sendbuf of the content of the cache returns DART_OK and is injected
\* exactly once; and once the flush of process_blocking has returned the
\* cache has pos = 0 and every accepted message has been injected.
C13_CacheDelivery ==
  \A s \in Senders :
    LET u == snd[s].unit
    IN /\ bsent[u] = binjected[u] \o CachedMessages(u)
       /\ Flushed(s) => amsgq[u].cache.pos = 0 /\ binjected[u] = bsent[u]

\* a step in which thread s calls flush_buffer (from the application or from
\* process_blocking) and reaches the test of the slot
FlushStarts(s) ==
  /\ snd[s].pc = "idle"
  /\ snd[s].buffered
  /\ snd'[s] # snd[s]
  /\ snd'[s].op \in {"flush", "pb"}

\* a step in which thread s, in flush_buffer with send_mutex, locks the cache
\* and tests its pos
FlushTests(s) == snd[s].pc = "f_cache" /\ snd'[s] # snd[s]

\* what of a cache is its state: whether it is allocated, its pos, its bytes
CacheContent(c) == <<c.block, c.pos, c.buffer>>

\* the step of thread s ends its call with DART_OK: no fetch-and-add, put or
\* bump of readypos was issued in the call, the window, the state of the
\* drainers and the cache are as they were, and s holds no mutex
ReturnsUntouched(s) ==
  LET u == snd[s].unit
  IN /\ snd'[s].pc \in {"idle", "barrier"}
     /\ snd'[s].ret = "OK"
     /\ snd'[s].attempts = 0 /\ snd'[s].bumps = 0 /\ snd'[s].wrote = {}
     /\ \A q \in Queues : snd'[s].net[q] = 0
     /\ UNCHANGED <<window, prev_tailpos, processing_mutex, thr, history>>
     /\ CacheContent(amsgq'[u].cache) = CacheContent(amsgq[u].cache)
     /\ amsgq'[u].message_cache = amsgq[u].message_cache
     /\ amsgq'[u].send_mutex # s
     /\ amsgq'[u].cache.mutex # s
     /\ amsgq'[u].processing_mutex # s

\* C14: flush is a no-op on an empty cache.  When the cache is unallocated at
\* the test of the slot, or has pos = 0 at the test of pos, flush_buffer issues
\* no remote operation, leaves the window and the cache as they are, releases
\* the mutexes it took and returns DART_OK; and a flush that did send leaves
\* pos = 0, so that a second flush is such a no-op.
C14_FlushNoOp ==
  [][\A s \in Senders :
       /\ FlushStarts(s) /\ Cache(s).block = "none" => ReturnsUntouched(s)
       /\ FlushTests(s) /\ Cache(s).pos = 0 => ReturnsUntouched(s)
       /\ (snd[s].pc = "signal" /\ snd[s].op \in {"flush", "pb"}
             /\ snd'[s] # snd[s]) => amsgq'[snd[s].unit].cache.pos = 0]_vars

\* a flush has returned that found the cache allocated and emptied by an
\* earlier send of its content
C14_Witness ==
  \E s \in Senders :
    /\ snd[s].empty
    /\ snd[s].ret = "OK"
    /\ Cache(s).block = "allocated"
    /\ Cache(s).pos = 0
    /\ binjected[snd[s].unit] # <<>>

\* closeq has returned at the unit whose main thread is s
Closed(s) == snd[s].pc = "closed"

\* C16: clean teardown.  After closeq has returned at a unit, its slot table
\* and the cache bsend allocated are deallocated; and the closeq of the target
\* invokes no handler.
C16_CleanTeardown ==
  [][/\ \A s \in Senders :
          Closed(s)' => /\ amsgq'[s].message_cache = "freed"
                        /\ amsgq'[s].cache.block # "allocated"
     /\ \A t \in Threads :
          thr[t].pc # "closed" /\ thr'[t].pc = "closed" =>
            dispatched' = dispatched]_vars

\* thread s is in a try_send whose data_size exceeds the msg_size given to
\* openq
Oversize(s) ==
  snd[s].op = "trysend" /\ snd[s].msg_size > HeaderSize + msg_size

\* C15: oversize rejection.  A try_send whose data_size exceeds msg_size takes
\* no step that changes the tail, the ready counter or the data of the target,
\* and ends rejected: by a failed assertion or with DART_ERR_INVAL.
C15_OversizeRejected ==
  [][\A s \in Senders :
       Oversize(s) /\ snd'[s] # snd[s] =>
         /\ UNCHANGED window
         /\ snd'[s].pc = "aborted" \/ snd'[s].ret = "INVAL"]_vars

\* the bytes a successful reservation covers
Tile(r) == r.offset..(r.offset + r.size - 1)

\* the reservations that succeeded on sub-queue q in its current cycle are
\* pairwise disjoint and cover [0, n) with no gap
Tiling(q, n) ==
  /\ \A a, b \in tiles[q] : a # b => Tile(a) \cap Tile(b) = {}
  /\ UNION {Tile(r) : r \in tiles[q]} = 0..(n - 1)

\* the offsets at which a message of the current cycle of sub-queue q begins
Boundaries(q) == {r.offset : r \in tiles[q]}

\* thread t is about to start a message of its walk and the assertion
\* pos <= tailpos of line 428 fails in this step
WalkAssertFails(t) ==
  /\ At(t, "dispatch")
  /\ WalkOn(thr[t].pos, thr[t].tailpos)
  /\ \E d \in HeaderSizes(ReadCell(thr[t].queuenum, thr[t].pos)) :
       ~Leq64(I64(0, NextPos(thr[t].pos, d)), thr[t].tailpos)

\* C21: the reservations that succeeded on a sub-queue in one drain cycle are
\* pairwise disjoint and tile [0, tail_now) exactly; the dispatch walk starts
\* every message at the offset of one of them, its assertion pos <= tail_now
\* never fails, and it ends with pos = tail_now.
C21_ReservationsTile ==
  \A t \in Threads :
    thr[t].pc \in {"resetready", "dispatch"} =>
      /\ thr[t].tailpos.hi = 0
      /\ Tiling(thr[t].queuenum, thr[t].tailpos.lo)
      /\ thr[t].pc = "dispatch" =>
           /\ thr[t].pos \in Boundaries(thr[t].queuenum) \cup {thr[t].tailpos.lo}
           /\ ~WalkAssertFails(t)
           /\ ~WalkOn(thr[t].pos, thr[t].tailpos) =>
                thr[t].pos = thr[t].tailpos.lo

\* C22: readiness implies landed.  In every state ready[q] is at most the
\* number of bytes of sub-queue q that a put completed by its flush (line 204)
\* has written in the current cycle of q: the bump of readypos (lines 210-214)
\* never counts a byte that is not yet at the target.
C22_ReadyImpliesLanded ==
  \A q \in Queues : ready[q] <= Cardinality(landed[q])

\* a step of thread t in process_internal
StepOf(t) == thr'[t] # thr[t]

\* the step of thread t is the read of a tail that is not positive: the body
\* of the if of line 296 is skipped
FindsNothing(t) ==
  /\ thr[t].pc = "readtail"
  /\ ~IsPos64(tail[thr[t].queuenum])
  /\ StepOf(t)

\* the step of thread t returns DART_OK from process_internal with
\* processing_mutex released
ReturnsOK(t) ==
  /\ thr'[t].ret = "OK"
  /\ ~InDrain(t)'
  /\ processing_mutex' = "free"

\* the step leaves the window and prev_tailpos as they are and invokes no
\* handler
NoEffect == UNCHANGED <<window, prev_tailpos, dispatched>>

\* C23: a process call that finds nothing to drain is free of side effects:
\* having read a tail that is not positive it goes straight to the end of the
\* loop and returns DART_OK, processing_mutex released, with selector, tail,
\* ready and prev_tailpos untouched and no handler invoked.  A non-blocking
\* call that does drain returns after one cycle: it swaps the queue number
\* once and every handler it invokes is on the one sub-queue it froze.
C23_NothingToDrain ==
  /\ [][\A t \in Threads :
          /\ FindsNothing(t) => thr'[t].pc = "loopend" /\ NoEffect
          /\ thr[t].pc = "loopend" /\ StepOf(t) => ReturnsOK(t) /\ NoEffect
          /\ (~Blocking(t) /\ thr[t].pc = "dispatch" /\ StepOf(t)
                /\ thr'[t].pc \notin {"dispatch", "aborted", "crashed"}) =>
               ReturnsOK(t)
          /\ (~Blocking(t) /\ InDrain(t) /\ selector' # selector) =>
               thr[t].pc = "swap"]_vars
  /\ [](\A t \in Threads :
          ~Blocking(t) /\ thr[t].pc = "dispatch" =>
            \A i \in Batch(t) : dispatched[i].queue = thr[t].queuenum)

\* the polling thread has read a tail of zero on the active sub-queue and
\* stands before the unlock, while the other sub-queue has been drained
C23_Witness ==
  /\ thr["aux"].pc = "loopend"
  /\ processing_mutex = "aux"
  /\ ~IsPos64(thr["aux"].tailpos)
  /\ Len(dispatched) > 0

\* the mutex thread s is about to lock: send_mutex at line 531, the mutex of
\* the cache at lines 467 and 540; "none" anywhere else
LockWanted(s) ==
  IF snd[s].pc = "b_alloc" THEN Amsgq(s).send_mutex
  ELSE IF snd[s].pc \in {"b_cache", "f_cache"} THEN Cache(s).mutex
  ELSE "none"

\* thread s waits for a mutex that it holds itself: dart__base__mutex_lock
\* does not return
SelfBlocked(s) == LockWanted(s) = s

\* the mutexes of its unit that thread s holds
HeldBy(s) ==
  {m \in {"send_mutex", "processing_mutex"} : Amsgq(s)[m] = s}
    \cup {m \in {"cache_mutex"} : Cache(s).mutex = s}

\* thread s is in none of the operations
Outside(s) ==
  /\ snd[s].pc \in {"idle", "barrier", "closed"}
  /\ snd[s].drain = "none"
  /\ snd[s].ctx = "none"

\* C24: the local locks are deadlock free, handlers that call bsend included:
\* no thread waits at a lock of send_mutex or of a cache mutex for a mutex its
\* own thread holds (the handler that process_internal dispatches for flush or
\* for the overflow drain of bsend after DART_ERR_AGAIN can call bsend), and a
\* thread that has returned from its operation holds no mutex.
C24_LocalLocksDeadlockFree ==
  \A s \in Senders :
    /\ ~SelfBlocked(s)
    /\ Outside(s) => HeldBy(s) = {}

====
